---------------------------- MODULE Spec2Model ----------------------------
(***************************************************************************)
(* A model of the to-do service of src/fastapi-app/main.py: the task       *)
(* store (a MongoDB collection), the request handlers with their awaits as *)
(* separate steps, the expiry predicate and the sort-key classifier.       *)
(*                                                                         *)
(* Text values (due_date, created_at, completed_at, title, tags) are       *)
(* sequences of one-character strings, so that formatting (isoformat) and  *)
(* parsing (fromisoformat) are computed character by character.  Python's  *)
(* None is the value None below, which is no sequence of characters.       *)
(***************************************************************************)
EXTENDS Integers, Sequences, FiniteSets, TLC

(***************************************************************************)
(* Bounds of the model.                                                    *)
(***************************************************************************)
MaxTasks == 2      \* tasks held by the store in the service specification
MaxClock == 1      \* instants the clock can show after the first one
MaxListLen == 3    \* tasks of a store handed to the listing functions
MaxInFlight == 2   \* requests being handled at the same time

(***************************************************************************)
(* Text.                                                                   *)
(***************************************************************************)
None == <<"None">>

Digits == <<"0", "1", "2", "3", "4", "5", "6", "7", "8", "9">>

DigitOf == [c \in {Digits[i] : i \in 1..10} |-> (CHOOSE i \in 1..10 : Digits[i] = c) - 1]

IsDigit(c) == c \in DOMAIN DigitOf

DigitVal(c) == DigitOf[c]

AllDigits(s) == \A i \in 1..Len(s) : IsDigit(s[i])

RECURSIVE Num(_)
Num(s) == IF s = <<>> THEN 0
          ELSE (10 * Num(SubSeq(s, 1, Len(s) - 1))) + DigitVal(s[Len(s)])

Pad2(n) == <<Digits[((n \div 10) % 10) + 1], Digits[(n % 10) + 1]>>

Pad4(n) == Pad2(n \div 100) \o Pad2(n % 100)

Pad6(n) == Pad2(n \div 10000) \o Pad4(n % 10000)

\* None where a list of texts is expected.
NoTags == <<None>>

\* Python's truth value of an Optional[str]: None and "" are false.
Truthy(s) == s # None /\ s # <<>>

(***************************************************************************)
(* The proleptic Gregorian calendar of Python's datetime module.           *)
(***************************************************************************)
MINYEAR == 1
MAXYEAR == 9999

IsLeap(y) == y % 4 = 0 /\ (y % 100 # 0 \/ y % 400 = 0)

DaysInMonth(y, m) ==
    IF m = 2 THEN (IF IsLeap(y) THEN 29 ELSE 28)
    ELSE IF m \in {4, 6, 9, 11} THEN 30 ELSE 31

RECURSIVE DaysBeforeMonth(_, _)
DaysBeforeMonth(y, m) ==
    IF m = 1 THEN 0 ELSE DaysBeforeMonth(y, m - 1) + DaysInMonth(y, m - 1)

DaysBeforeYear(y) ==
    ((y - 1) * 365) + ((y - 1) \div 4) - ((y - 1) \div 100) + ((y - 1) \div 400)

\* date.toordinal(): 0001-01-01 is day 1.
Ordinal(y, m, d) == DaysBeforeYear(y) + DaysBeforeMonth(y, m) + d

NextDay(dt) ==
    IF dt.d < DaysInMonth(dt.y, dt.m) THEN [dt EXCEPT !.d = dt.d + 1]
    ELSE IF dt.m < 12 THEN [dt EXCEPT !.m = dt.m + 1, !.d = 1]
    ELSE [dt EXCEPT !.y = dt.y + 1, !.m = 1, !.d = 1]

RECURSIVE AddDays(_, _)
AddDays(dt, n) == IF n = 0 THEN dt ELSE AddDays(NextDay(dt), n - 1)

\* A datetime value: the fields of Python's naive datetime.
DateTime(y, m, d, H, M, S, us) ==
    [ok |-> TRUE, y |-> y, m |-> m, d |-> d, H |-> H, M |-> M, S |-> S, us |-> us]

\* The outcome of a parse that raised ValueError.
Invalid ==
    [ok |-> FALSE, y |-> 0, m |-> 0, d |-> 0, H |-> 0, M |-> 0, S |-> 0, us |-> 0]

\* The exception a failed fromisoformat raises for a str argument.
ParseError == "ValueError"

datetime_min == DateTime(MINYEAR, 1, 1, 0, 0, 0, 0)
datetime_max == DateTime(MAXYEAR, 12, 31, 23, 59, 59, 999999)

\* date < date, datetime < datetime: field by field.
\* due_date <= today, where is_expired has due_date < today.
DateNotAfter(a, b) ==
    \/ a.y < b.y
    \/ a.y = b.y /\ a.m < b.m
    \/ a.y = b.y /\ a.m = b.m /\ a.d <= b.d

DateLess(a, b) ==
    \/ a.y < b.y
    \/ a.y = b.y /\ a.m < b.m
    \/ a.y = b.y /\ a.m = b.m /\ a.d < b.d

(***************************************************************************)
(* date.fromisoformat and datetime.fromisoformat, on the formats every     *)
(* supported Python version reads the same way: YYYY-MM-DD, and for a      *)
(* datetime also YYYY-MM-DD?HH:MM:SS and YYYY-MM-DD?HH:MM:SS.ffffff, where *)
(* ? is any one character.  Anything else raises ValueError (Invalid).     *)
(***************************************************************************)
ParseDatePart(s) ==
    IF /\ Len(s) = 10
       /\ s[5] = "-" /\ s[8] = "-"
       /\ AllDigits(SubSeq(s, 1, 4))
       /\ AllDigits(SubSeq(s, 6, 7))
       /\ AllDigits(SubSeq(s, 9, 10))
    THEN LET y == Num(SubSeq(s, 1, 4))
             m == Num(SubSeq(s, 6, 7))
             d == Num(SubSeq(s, 9, 10))
         IN  IF /\ y >= MINYEAR /\ y <= MAXYEAR
                /\ m >= 1 /\ m <= 12
                /\ d >= 1 /\ d <= DaysInMonth(y, m)
             THEN DateTime(y, m, d, 0, 0, 0, 0)
             ELSE Invalid
    ELSE Invalid

ParseTimePart(s) ==
    IF /\ Len(s) \in {8, 15}
       /\ s[3] = ":" /\ s[6] = ":"
       /\ AllDigits(SubSeq(s, 1, 2))
       /\ AllDigits(SubSeq(s, 4, 5))
       /\ AllDigits(SubSeq(s, 7, 8))
       /\ (Len(s) = 15 => s[9] = "." /\ AllDigits(SubSeq(s, 10, 15)))
    THEN LET H == Num(SubSeq(s, 1, 2))
             M == Num(SubSeq(s, 4, 5))
             S == Num(SubSeq(s, 7, 8))
             us == IF Len(s) = 15 THEN Num(SubSeq(s, 10, 15)) ELSE 0
         IN  IF H <= 23 /\ M <= 59 /\ S <= 59
             THEN DateTime(1, 1, 1, H, M, S, us)
             ELSE Invalid
    ELSE Invalid

date_fromisoformat(s) == ParseDatePart(s)

datetime_fromisoformat(s) ==
    IF Len(s) = 10 THEN ParseDatePart(s)
    ELSE IF Len(s) \in {19, 26}
    THEN LET dp == ParseDatePart(SubSeq(s, 1, 10))
             tp == ParseTimePart(SubSeq(s, 12, Len(s)))
         IN  IF dp.ok /\ tp.ok
             THEN DateTime(dp.y, dp.m, dp.d, tp.H, tp.M, tp.S, tp.us)
             ELSE Invalid
    ELSE Invalid

\* date.isoformat() and datetime.isoformat(): the fraction is written only
\* when the microsecond is not 0.
date_isoformat(dt) == Pad4(dt.y) \o <<"-">> \o Pad2(dt.m) \o <<"-">> \o Pad2(dt.d)

datetime_isoformat(dt) ==
    date_isoformat(dt) \o <<"T">> \o Pad2(dt.H) \o <<":">> \o Pad2(dt.M)
        \o <<":">> \o Pad2(dt.S)
        \o (IF dt.us = 0 THEN <<>> ELSE <<".">> \o Pad6(dt.us))


(***************************************************************************)
(* datetime.timestamp() of a naive datetime, in a zone tzh hours east of   *)
(* UTC.  The value is seconds since 1970, kept exactly as <<hours, seconds *)
(* within the hour, microseconds>> and compared component by component.    *)
(* CPython's conversion to UTC evaluates local time one day before the     *)
(* value and at the value read as UTC: it raises ValueError ("year 0 is    *)
(* out of range") for every datetime of the first day of year 1, and       *)
(* ("year 10000 is out of range") in the last tzh hours of year 9999.      *)
(***************************************************************************)
EpochOrdinal == Ordinal(1970, 1, 1)

HoursOf(dt) == ((Ordinal(dt.y, dt.m, dt.d) - 1) * 24) + dt.H

TimestampRaises(dt, tzh) ==
    \/ HoursOf(dt) < 24
    \/ tzh > 0 /\ HoursOf(dt) + tzh >= Ordinal(MAXYEAR, 12, 31) * 24

timestamp(dt, tzh) ==
    <<HoursOf(dt) - ((EpochOrdinal - 1) * 24) - tzh, (dt.M * 60) + dt.S, dt.us>>

Neg(v) == <<0 - v[1], 0 - v[2], 0 - v[3]>>

ValLess(a, b) ==
    \/ a[1] < b[1]
    \/ a[1] = b[1] /\ a[2] < b[2]
    \/ a[1] = b[1] /\ a[2] = b[2] /\ a[3] < b[3]

(***************************************************************************)
(* The clock.  Instant k of the model is 12 hours and one microsecond      *)
(* after instant k - 1; instant 0 is 2024-02-29T00:00:00, so the local    *)
(* date is 2024-03-01 from instant 2 on.                                   *)
(***************************************************************************)
datetime_now(k) ==
    LET day == AddDays(DateTime(2024, 2, 29, 0, 0, 0, 0), k \div 2)
    IN  DateTime(day.y, day.m, day.d, 12 * (k % 2), 0, 0, k)

date_today(k) ==
    LET n == datetime_now(k) IN DateTime(n.y, n.m, n.d, 0, 0, 0, 0)

now_isoformat(k) == datetime_isoformat(datetime_now(k))

(***************************************************************************)
(* is_expired, at clock instant k.                                         *)
(***************************************************************************)
\* except (ValueError, TypeError)
ExpiryCaught == {"ValueError", "TypeError"}

is_expired(due_date_str, k) ==
    IF ~Truthy(due_date_str) THEN FALSE
    ELSE LET due_date == date_fromisoformat(due_date_str)
         IN  IF due_date.ok THEN DateLess(due_date, date_today(k)) ELSE FALSE

\* Whether is_expired lets the exception of a failed parse through.
is_expired_raises(due_date_str) ==
    /\ Truthy(due_date_str)
    /\ ~date_fromisoformat(due_date_str).ok
    /\ ParseError \notin ExpiryCaught

(***************************************************************************)
(* Tasks, as the documents of the collection, and the response models.     *)
(***************************************************************************)
Task(id, title, completed, due_date, tags, created_at, completed_at) ==
    [id |-> id, title |-> title, completed |-> completed, due_date |-> due_date,
     tags |-> tags, created_at |-> created_at, completed_at |-> completed_at]

\* TodoItem(**task): the stored fields.
TodoItem(task) ==
    [id |-> task.id, title |-> task.title, completed |-> task.completed,
     due_date |-> task.due_date, tags |-> task.tags,
     created_at |-> task.created_at, completed_at |-> task.completed_at]

\* TodoResponse.expired, the computed field.
expired(task, k) ==
    IF Truthy(task.due_date) THEN is_expired(task.due_date, k) ELSE FALSE

\* TodoResponse(**task) as serialised: the stored fields and expired.
TodoResponse(task, k) ==
    [id |-> task.id, title |-> task.title, completed |-> task.completed,
     due_date |-> task.due_date, tags |-> task.tags,
     created_at |-> task.created_at, completed_at |-> task.completed_at,
     expired |-> expired(task, k)]

task_to_response(task, k) == TodoResponse(task, k)

(***************************************************************************)
(* sort_tasks.  A key is (rank, value); raised is TRUE when computing the  *)
(* key raised (timestamp() is called outside the try blocks).              *)
(***************************************************************************)
Key(rank, dt, negate, tzh) ==
    [raised |-> TimestampRaises(dt, tzh),
     rank |-> rank,
     val |-> IF negate THEN Neg(timestamp(dt, tzh)) ELSE timestamp(dt, tzh)]

MidnightSuffix == <<"T", "0", "0", ":", "0", "0", ":", "0", "0">>

EpochText == date_isoformat(DateTime(1970, 1, 1, 0, 0, 0, 0)) \o MidnightSuffix

\* The due date as a datetime, datetime.max when it does not parse.
DueDateTime(due_date_str) ==
    LET parsed == IF Len(due_date_str) = 10
                  THEN datetime_fromisoformat(due_date_str \o MidnightSuffix)
                  ELSE datetime_fromisoformat(due_date_str)
    IN  IF parsed.ok THEN parsed ELSE datetime_max

sort_key(task, k, tzh) ==
    LET completed == task.completed
        due_date_str == task.due_date
        is_exp == is_expired(due_date_str, k)
        has_date == Truthy(due_date_str) /\ ~is_exp
    IN  IF completed
        THEN LET completed_at == task.completed_at
                 parsed == IF Truthy(completed_at)
                           THEN datetime_fromisoformat(completed_at)
                           ELSE datetime_min
                 completed_time == IF parsed.ok THEN parsed ELSE datetime_min
             IN  Key(4, completed_time, TRUE, tzh)
        ELSE IF is_exp
        THEN Key(3, DueDateTime(due_date_str), FALSE, tzh)
        ELSE IF has_date
        THEN Key(2, DueDateTime(due_date_str), FALSE, tzh)
        ELSE LET created_at == IF Truthy(task.created_at)
                               THEN task.created_at ELSE EpochText
                 parsed == datetime_fromisoformat(created_at)
                 created_time == IF parsed.ok THEN parsed ELSE datetime_min
             IN  Key(1, created_time, TRUE, tzh)

\* Python's comparison of two key tuples.
\* A comparison of keys that leaves the rank out.
KeyLessByValue(a, b) == ValLess(a.val, b.val)

KeyLess(a, b) ==
    \/ a.rank < b.rank
    \/ a.rank = b.rank /\ ValLess(a.val, b.val)

\* A sort that is not stable: a task goes before every earlier task whose
\* key is not less than its own.
RECURSIVE InsertBeforeEqual(_, _, _)
InsertBeforeEqual(acc, i, keys) ==
    IF acc = <<>> THEN <<i>>
    ELSE IF ~KeyLess(keys[acc[Len(acc)]], keys[i])
    THEN Append(InsertBeforeEqual(SubSeq(acc, 1, Len(acc) - 1), i, keys), acc[Len(acc)])
    ELSE Append(acc, i)

\* sorted() is stable: a task goes after every earlier task whose key is
\* not greater than its own.  acc and the result are sequences of indices.
RECURSIVE InsertByKey(_, _, _)
InsertByKey(acc, i, keys) ==
    IF acc = <<>> THEN <<i>>
    ELSE IF KeyLess(keys[i], keys[acc[Len(acc)]])
    THEN Append(InsertByKey(SubSeq(acc, 1, Len(acc) - 1), i, keys), acc[Len(acc)])
    ELSE Append(acc, i)

RECURSIVE SortedIndices(_, _)
SortedIndices(n, keys) ==
    IF n = 0 THEN <<>> ELSE InsertByKey(SortedIndices(n - 1, keys), n, keys)

\* sort_tasks(tasks): [raised, tasks].
sort_tasks(tasks, k, tzh) ==
    LET keys == [i \in 1..Len(tasks) |-> sort_key(tasks[i], k, tzh)]
        order == SortedIndices(Len(tasks), keys)
    IN  IF \E i \in 1..Len(tasks) : keys[i].raised
        THEN [raised |-> TRUE, tasks |-> <<>>]
        ELSE [raised |-> FALSE, tasks |-> [j \in 1..Len(tasks) |-> tasks[order[j]]]]


(***************************************************************************)
(* The collection: a sequence of documents in insertion order, and the     *)
(* MongoDB commands the handlers issue.  A filter {"id": x} matches the    *)
(* first document with that id.                                            *)
(***************************************************************************)
FirstMatch(coll, todo_id) ==
    IF \E i \in 1..Len(coll) : coll[i].id = todo_id
    THEN CHOOSE i \in 1..Len(coll) :
             /\ coll[i].id = todo_id
             /\ \A j \in 1..(i - 1) : coll[j].id # todo_id
    ELSE 0

\* find_one(sort=[("id", -1)]): a document with the greatest id, 0 for none.
LastId(coll) ==
    IF coll = <<>> THEN 0
    ELSE CHOOSE x \in {coll[i].id : i \in 1..Len(coll)} :
             \A i \in 1..Len(coll) : coll[i].id <= x

insert_one(coll, doc) == Append(coll, doc)

RemoveAt(coll, i) == SubSeq(coll, 1, i - 1) \o SubSeq(coll, i + 1, Len(coll))

\* delete_one({"id": todo_id}): [deleted_count, coll].
\* A delete_one that removes the first document when none matches.
delete_one_or_first(coll, todo_id) ==
    LET i == FirstMatch(coll, todo_id)
    IN  IF i = 0 THEN [deleted_count |-> 0, coll |-> IF coll = <<>> THEN coll ELSE Tail(coll)]
        ELSE [deleted_count |-> 1, coll |-> RemoveAt(coll, i)]

delete_one(coll, todo_id) ==
    LET i == FirstMatch(coll, todo_id)
    IN  IF i = 0 THEN [deleted_count |-> 0, coll |-> coll]
        ELSE [deleted_count |-> 1, coll |-> RemoveAt(coll, i)]

\* A replace_one in place of the update_one of update_todo: the document
\* becomes the given fields and the id, and created_at is lost.
replace_one_task(coll, todo_id, updated_task) ==
    LET i == FirstMatch(coll, todo_id)
    IN  IF i = 0 THEN coll
        ELSE [coll EXCEPT ![i] = [@ EXCEPT !.title = updated_task.title,
                                           !.completed = updated_task.completed,
                                           !.due_date = updated_task.due_date,
                                           !.tags = updated_task.tags,
                                           !.completed_at = updated_task.completed_at,
                                           !.created_at = None]]

\* update_one({"id": todo_id}, {"$set": updated_task}) of update_todo.
update_one_task(coll, todo_id, updated_task) ==
    LET i == FirstMatch(coll, todo_id)
    IN  IF i = 0 THEN coll
        ELSE [coll EXCEPT ![i] = [@ EXCEPT !.title = updated_task.title,
                                           !.completed = updated_task.completed,
                                           !.due_date = updated_task.due_date,
                                           !.tags = updated_task.tags,
                                           !.completed_at = updated_task.completed_at]]

\* An update_many in place of the update_one of toggle_todo_completion: every
\* document with that id is written.
update_many_toggle(coll, todo_id, update_data) ==
    [i \in 1..Len(coll) |->
        IF coll[i].id = todo_id
        THEN [coll[i] EXCEPT !.completed = update_data.completed,
                             !.completed_at = update_data.completed_at]
        ELSE coll[i]]

\* update_one({"id": todo_id}, {"$set": update_data}) of toggle_todo_completion.
update_one_toggle(coll, todo_id, update_data) ==
    LET i == FirstMatch(coll, todo_id)
    IN  IF i = 0 THEN coll
        ELSE [coll EXCEPT ![i] = [@ EXCEPT !.completed = update_data.completed,
                                           !.completed_at = update_data.completed_at]]

(***************************************************************************)
(* The handlers' computations between two awaits.                          *)
(***************************************************************************)
get_next_task_id(coll) == IF coll # <<>> THEN LastId(coll) + 1 ELSE 1

\* todo.tags or []
TagsOrEmpty(tags) == IF tags = NoTags \/ tags = <<>> THEN <<>> ELSE tags

\* "tags": todo.tags, without the "or []".
new_task_tags_as_given(todo, id, k) ==
    Task(id, todo.title, todo.completed, todo.due_date, todo.tags, now_isoformat(k), None)

\* create_todo: the document built from the payload.
new_task(todo, id, k) ==
    Task(id, todo.title, todo.completed, todo.due_date, TagsOrEmpty(todo.tags),
         now_isoformat(k), None)

\* update_todo: completed_at of the updated document.
updated_completed_at(existing_task, updated_todo, k) ==
    IF updated_todo.completed /\ ~existing_task.completed THEN now_isoformat(k)
    ELSE IF ~updated_todo.completed /\ existing_task.completed THEN None
    ELSE existing_task.completed_at

\* An update that keeps the stored due_date when the payload gives none.
updated_task_keeping_due(existing_task, updated_todo, k) ==
    [title |-> updated_todo.title,
     completed |-> updated_todo.completed,
     due_date |-> IF updated_todo.due_date = None THEN existing_task.due_date
                  ELSE updated_todo.due_date,
     tags |-> TagsOrEmpty(updated_todo.tags),
     completed_at |-> updated_completed_at(existing_task, updated_todo, k)]

updated_task(existing_task, updated_todo, k) ==
    [title |-> updated_todo.title,
     completed |-> updated_todo.completed,
     due_date |-> updated_todo.due_date,
     tags |-> TagsOrEmpty(updated_todo.tags),
     completed_at |-> updated_completed_at(existing_task, updated_todo, k)]

\* toggle_todo_completion: the fields it sets.
update_data(task, k) ==
    LET new_completed_status == ~task.completed
    IN  [completed |-> new_completed_status,
         completed_at |-> IF new_completed_status THEN now_isoformat(k) ELSE None]

(***************************************************************************)
(* Responses.  body is a sequence of records: the tasks of a listing, the  *)
(* one task of a create, update or toggle, nothing otherwise.  arg is the  *)
(* identifier the request named (0 for none).                              *)
(***************************************************************************)
Resp(op, status, arg, body) == [op |-> op, status |-> status, arg |-> arg, body |-> body]

NoResp == Resp("none", 0, 0, <<>>)

\* get_todos(): 500 when sort_tasks raises.
get_todos(coll, k, tzh) ==
    LET sorted_tasks == sort_tasks(coll, k, tzh)
    IN  IF sorted_tasks.raised THEN Resp("get_todos", 500, 0, <<>>)
        ELSE Resp("get_todos", 200, 0,
                  [i \in 1..Len(coll) |-> TodoResponse(sorted_tasks.tasks[i], k)])

\* get_expired_todos() with find({}) in place of find({"completed": False}).
get_expired_todos_of_all(coll, k) ==
    LET Keep(task) == task_to_response(task, k).expired
        tasks == SelectSeq(coll, Keep)
    IN  Resp("get_expired_todos", 200, 0,
             [i \in 1..Len(tasks) |-> task_to_response(tasks[i], k)])

\* get_expired_todos(): find({"completed": False}), then the expired ones.
get_expired_todos(coll, k) ==
    LET Keep(task) == ~task.completed /\ task_to_response(task, k).expired
        tasks == SelectSeq(coll, Keep)
    IN  Resp("get_expired_todos", 200, 0,
             [i \in 1..Len(tasks) |-> task_to_response(tasks[i], k)])



(***************************************************************************)
(* The inputs of the requests.                                             *)
(***************************************************************************)
Text_a == <<"a">>
Text_b == <<"b">>
Text_x == <<"x">>

\* The day before instant 0, the day of instant 0, the next two days.
Due_0228 == date_isoformat(DateTime(2024, 2, 28, 0, 0, 0, 0))
Due_0229 == date_isoformat(DateTime(2024, 2, 29, 0, 0, 0, 0))
Due_0301 == date_isoformat(DateTime(2024, 3, 1, 0, 0, 0, 0))
Due_0302 == date_isoformat(DateTime(2024, 3, 2, 0, 0, 0, 0))

\* TodoCreate payloads: completed defaults to False, tags to [].
CreateInput(completed, due_date) ==
    [title |-> Text_a, completed |-> completed, due_date |-> due_date, tags |-> NoTags]

CreateInputs == {CreateInput(c, d) : c \in BOOLEAN, d \in {Due_0228}}

\* TodoUpdate payloads.
UpdateInputs ==
    {[title |-> Text_b, completed |-> c, due_date |-> None,
      tags |-> <<Text_x, Text_x>>] : c \in BOOLEAN}

\* Hours east of UTC of the zone the service may run in.
TzOffsets == {0, 9}

Ids == 1..MaxTasks

Slots == 1..MaxInFlight

(***************************************************************************)
(* State.                                                                  *)
(*   store  the tasks collection                                           *)
(*   clock  the instant the system clock shows                             *)
(*   req    the requests being handled: each slot holds a handler          *)
(*          suspended at an await, with its local variables                *)
(*   out    the response sent by the last step (NoResp when it sent none)  *)
(*   watch  history, kept by WatchSpec only: a task's state before the     *)
(*          first of two toggle requests handled one after the other with  *)
(*          no write between them                                          *)
(*   issued history, kept by ApiSpec only: the highest id a create request *)
(*          has been given so far (0 before the first)                     *)
(*   expected  history, kept by ToggleSpec only: for each id, the completed *)
(*          flag its task was first stored with, negated once for every    *)
(*          toggle request on that id answered with the task (empty while  *)
(*          no task has had the id)                                        *)
(***************************************************************************)
VARIABLES store, clock, req, out, watch, issued, expected

vars == <<store, clock, req, out, watch, issued, expected>>

hist == <<watch, issued, expected>>

IdleReq == [op |-> "idle", pc |-> "idle"]

NoTask == Task(0, <<>>, FALSE, None, <<>>, None, None)

WatchIdle == [phase |-> "idle", slot |-> 0, pre |-> NoTask]

NoneExpected == [id \in Ids |-> {}]

\* Slots are interchangeable: a new request takes the lowest free one.
Free(s) == req[s].op = "idle" /\ \A r \in 1..(s - 1) : req[r].op # "idle"

Init ==
    /\ store = <<>>
    /\ clock = 0
    /\ req = [s \in Slots |-> IdleReq]
    /\ out = NoResp
    /\ watch = WatchIdle
    /\ issued = 0
    /\ expected = NoneExpected

\* Time passes.
Tick ==
    /\ clock < MaxClock
    /\ clock' = clock + 1
    /\ out' = NoResp
    /\ UNCHANGED <<store, req>>

\* GET /todos, served by a process whose zone is tzh hours east of UTC.
GetTodos(tzh) ==
    /\ out' = get_todos(store, clock, tzh)
    /\ UNCHANGED <<store, clock, req>>

\* GET /todos/expired
GetExpiredTodos ==
    /\ out' = get_expired_todos(store, clock)
    /\ UNCHANGED <<store, clock, req>>

\* POST /todos, up to the await of insert_one.
CreateBegin(s, todo) ==
    /\ Free(s)
    /\ Len(store) + Cardinality({r \in Slots : req[r].op = "create"}) < MaxTasks
    /\ get_next_task_id(store) <= MaxTasks
    /\ req' = [req EXCEPT ![s] =
                  [op |-> "create", pc |-> "insert_one",
                   new_task |-> new_task(todo, get_next_task_id(store), clock)]]
    /\ out' = NoResp
    /\ UNCHANGED <<store, clock>>

\* POST /todos: insert_one and the response.
CreateInsert(s) ==
    /\ req[s].op = "create"
    /\ store' = insert_one(store, req[s].new_task)
    /\ out' = Resp("create", 200, req[s].new_task.id, <<TodoItem(req[s].new_task)>>)
    /\ req' = [req EXCEPT ![s] = IdleReq]
    /\ UNCHANGED clock

\* PUT /todos/{todo_id}: find_one, then 404 or up to the await of update_one.
UpdateBegin(s, todo_id, updated_todo) ==
    /\ Free(s)
    /\ LET i == FirstMatch(store, todo_id)
       IN  IF i = 0
           THEN /\ out' = Resp("update", 404, todo_id, <<>>)
                /\ req' = req
           ELSE /\ out' = NoResp
                /\ req' = [req EXCEPT ![s] =
                              [op |-> "update", pc |-> "update_one",
                               todo_id |-> todo_id,
                               updated_task |-> updated_task(store[i], updated_todo, clock)]]
    /\ UNCHANGED <<store, clock>>

\* A handler after its update_one: only todo_id is used from here on.
AtFindOne(r) == [op |-> r.op, pc |-> "find_one", todo_id |-> r.todo_id]

\* PUT /todos/{todo_id}: update_one.
UpdateWrite(s) ==
    /\ req[s].op = "update" /\ req[s].pc = "update_one"
    /\ store' = update_one_task(store, req[s].todo_id, req[s].updated_task)
    /\ req' = [req EXCEPT ![s] = AtFindOne(req[s])]
    /\ out' = NoResp
    /\ UNCHANGED clock

\* The last find_one of update_todo and toggle_todo_completion and the
\* response: task.pop raises AttributeError when the task is gone.
Refetched(op, coll, todo_id) ==
    LET i == FirstMatch(coll, todo_id)
    IN  IF i = 0 THEN Resp(op, 500, todo_id, <<>>)
        ELSE Resp(op, 200, todo_id, <<TodoItem(coll[i])>>)

\* PUT /todos/{todo_id}: the second find_one and the response.
UpdateReturn(s) ==
    /\ req[s].op = "update" /\ req[s].pc = "find_one"
    /\ out' = Refetched("update", store, req[s].todo_id)
    /\ req' = [req EXCEPT ![s] = IdleReq]
    /\ UNCHANGED <<store, clock>>

\* PATCH /todos/{todo_id}/toggle: find_one, then 404 or up to update_one.
ToggleBegin(s, todo_id) ==
    /\ Free(s)
    /\ LET i == FirstMatch(store, todo_id)
       IN  IF i = 0
           THEN /\ out' = Resp("toggle", 404, todo_id, <<>>)
                /\ req' = req
           ELSE /\ out' = NoResp
                /\ req' = [req EXCEPT ![s] =
                              [op |-> "toggle", pc |-> "update_one",
                               todo_id |-> todo_id,
                               update_data |-> update_data(store[i], clock)]]
    /\ UNCHANGED <<store, clock>>

\* PATCH /todos/{todo_id}/toggle: update_one.
ToggleWrite(s) ==
    /\ req[s].op = "toggle" /\ req[s].pc = "update_one"
    /\ store' = update_one_toggle(store, req[s].todo_id, req[s].update_data)
    /\ req' = [req EXCEPT ![s] = AtFindOne(req[s])]
    /\ out' = NoResp
    /\ UNCHANGED clock

\* PATCH /todos/{todo_id}/toggle: the second find_one and the response.
ToggleReturn(s) ==
    /\ req[s].op = "toggle" /\ req[s].pc = "find_one"
    /\ out' = Refetched("toggle", store, req[s].todo_id)
    /\ req' = [req EXCEPT ![s] = IdleReq]
    /\ UNCHANGED <<store, clock>>

\* DELETE /todos/{todo_id}
DeleteTodo(todo_id) ==
    /\ LET result == delete_one(store, todo_id)
       IN  /\ store' = result.coll
           /\ out' = IF result.deleted_count = 0
                     THEN Resp("delete", 404, todo_id, <<>>)
                     ELSE Resp("delete", 200, todo_id, <<>>)
    /\ UNCHANGED <<clock, req>>

\* is_expired(due_date_str), called on its own: the text and the answer.
ExpiryCheck(due_date_str) ==
    /\ out' = Resp("is_expired", IF is_expired_raises(due_date_str) THEN 500 ELSE 200, 0,
                   <<[due_date |-> due_date_str,
                      expired |-> is_expired(due_date_str, clock)]>>)
    /\ UNCHANGED <<store, clock, req>>

(***************************************************************************)
(* The service.  A listing reads the collection in one step and depends on *)
(* nothing a suspended handler holds, and every content of the collection  *)
(* is also reached with no handler suspended (one that has not written yet *)
(* need not have started, one that has written can return): the listings   *)
(* are taken in those states.                                              *)
(***************************************************************************)
Quiet == \A s \in Slots : req[s].op = "idle"

Next ==
    \/ Tick /\ UNCHANGED hist
    \/ \E tzh \in TzOffsets : Quiet /\ GetTodos(tzh) /\ UNCHANGED hist
    \/ Quiet /\ GetExpiredTodos /\ UNCHANGED hist
    \/ \E s \in Slots, todo \in CreateInputs : CreateBegin(s, todo) /\ UNCHANGED hist
    \/ \E s \in Slots : CreateInsert(s) /\ UNCHANGED hist
    \/ \E s \in Slots, todo_id \in Ids, todo \in UpdateInputs :
          UpdateBegin(s, todo_id, todo) /\ UNCHANGED hist
    \/ \E s \in Slots : UpdateWrite(s) /\ UNCHANGED hist
    \/ \E s \in Slots : UpdateReturn(s) /\ UNCHANGED hist
    \/ \E s \in Slots, todo_id \in Ids : ToggleBegin(s, todo_id) /\ UNCHANGED hist
    \/ \E s \in Slots : ToggleWrite(s) /\ UNCHANGED hist
    \/ \E s \in Slots : ToggleReturn(s) /\ UNCHANGED hist
    \/ \E todo_id \in Ids : DeleteTodo(todo_id) /\ UNCHANGED hist

Spec == Init /\ [][Next]_vars

(***************************************************************************)
(* The service with the history variable watch.  It follows one toggle     *)
(* request from its find_one ("first") to its response ("between"), then   *)
(* the next toggle request on the same task ("second") to its response     *)
(* ("done", for the one state that holds that response), and gives up at   *)
(* any write of the collection by another request.                         *)
(***************************************************************************)
Settle(w) == IF w.phase = "done" THEN WatchIdle ELSE w

WatchAfter ==
    LET w == Settle(watch)
        began == {s \in Slots : req[s].op = "idle" /\ req'[s].op = "toggle"}
        returned == {s \in Slots : /\ req[s].op = "toggle" /\ req[s].pc = "find_one"
                                   /\ req'[s].op = "idle"}
        wrote == {s \in Slots : /\ req[s].pc = "update_one" /\ req'[s].pc = "find_one"
                                /\ FirstMatch(store, req[s].todo_id) # 0}
        inserted == \E s \in Slots : req[s].op = "create" /\ req'[s].op = "idle"
        deleted == out'.op = "delete" /\ out'.status = 200
        watched(s) == w.phase \in {"first", "second"} /\ w.slot = s
    IN  IF inserted \/ deleted \/ \E s \in wrote : ~watched(s) THEN WatchIdle
        ELSE IF began # {}
        THEN LET s == CHOOSE x \in began : TRUE
                 task == store[FirstMatch(store, req'[s].todo_id)]
             IN  IF w.phase = "idle"
                 THEN [phase |-> "first", slot |-> s, pre |-> task]
                 ELSE IF w.phase = "between" /\ w.pre.id = task.id
                 THEN [w EXCEPT !.phase = "second", !.slot = s]
                 ELSE w
        ELSE IF \E s \in returned : watched(s)
        THEN IF out'.status # 200 THEN WatchIdle
             ELSE IF w.phase = "first" THEN [w EXCEPT !.phase = "between", !.slot = 0]
             ELSE [w EXCEPT !.phase = "done", !.slot = 0]
        ELSE w

Observe == watch' = WatchAfter /\ UNCHANGED <<issued, expected>>

WatchNext ==
    \/ Tick /\ Observe
    \/ \E s \in Slots, todo \in CreateInputs : CreateBegin(s, todo) /\ Observe
    \/ \E s \in Slots : CreateInsert(s) /\ Observe
    \/ \E s \in Slots, todo_id \in Ids, todo \in UpdateInputs :
          UpdateBegin(s, todo_id, todo) /\ Observe
    \/ \E s \in Slots : UpdateWrite(s) /\ Observe
    \/ \E s \in Slots : UpdateReturn(s) /\ Observe
    \/ \E s \in Slots, todo_id \in Ids : ToggleBegin(s, todo_id) /\ Observe
    \/ \E s \in Slots : ToggleWrite(s) /\ Observe
    \/ \E s \in Slots : ToggleReturn(s) /\ Observe
    \/ \E todo_id \in Ids : DeleteTodo(todo_id) /\ Observe

WatchSpec == Init /\ [][WatchNext]_vars

(***************************************************************************)
(* The listing functions and the expiry predicate on their own, over       *)
(* bounded contents of the collection: documents as create_todo and        *)
(* toggle_todo_completion write them, and documents written by others      *)
(* (fields absent or not parseable).                                       *)
(***************************************************************************)
Text_garbage == <<"g", "a", "r", "b", "a", "g", "e">>

\* Ten characters shaped like a date that name no day.
Text_0230 == <<"2", "0", "2", "4", "-", "0", "2", "-", "3", "0">>

\* A created_at before 1970, as of a task brought in from elsewhere.
Created_1969 == datetime_isoformat(DateTime(1969, 12, 30, 0, 0, 0, 0))

Created(id, completed, due_date, k) == new_task(CreateInput(completed, due_date), id, k)

Toggled(task, k) == update_one_toggle(<<task>>, task.id, update_data(task, k))[1]

ListDocs ==
    { Created(1, FALSE, None, 0),
      Created(2, FALSE, None, 1),
      Created(3, FALSE, Due_0228, 0),
      Created(4, FALSE, Due_0229, 0),
      Created(5, FALSE, Due_0302, 1),
      Created(6, TRUE, Due_0228, 0),
      Toggled(Created(7, FALSE, Due_0228, 0), 1),
      Toggled(Created(8, FALSE, None, 0), 0),
      Created(9, FALSE, Text_garbage, 0),
      Created(10, FALSE, <<>>, 0),
      Created(11, FALSE, Text_0230, 1),
      Task(12, Text_a, FALSE, None, <<>>, None, None),
      Task(13, Text_a, FALSE, None, <<>>, Created_1969, None),
      Task(14, Text_a, FALSE, None, <<>>, Text_garbage, None) }

ListStores == UNION {[1..n -> ListDocs] : n \in 0..MaxListLen}

\* Two instants: today is 2024-02-29 at the first, a later day at the other.
ListInit ==
    /\ store \in ListStores
    /\ clock \in {0, 2 * MaxClock}
    /\ req = [s \in Slots |-> IdleReq]
    /\ out = NoResp
    /\ watch = WatchIdle
    /\ issued = 0
    /\ expected = NoneExpected

\* A listing does not depend on the response before it: one is asked on
\* each content of the collection.
ListNext ==
    \/ \E tzh \in TzOffsets : out = NoResp /\ GetTodos(tzh) /\ UNCHANGED hist
    \/ out = NoResp /\ GetExpiredTodos /\ UNCHANGED hist

ListSpec == ListInit /\ [][ListNext]_vars

(***************************************************************************)
(* is_expired on its own.  The texts handed to it: days by their date, and *)
(* texts that name no day.                                                 *)
(***************************************************************************)
KnownDays ==
    {DateTime(y, m, d, 0, 0, 0, 0) : y \in {1, 2023, 2024, 9999}, m \in {1, 2, 3, 12},
                                     d \in {1, 28}}
    \cup {DateTime(2024, 2, 29, 0, 0, 0, 0), DateTime(2024, 3, 2, 0, 0, 0, 0)}

NoDayTexts ==
    { None, <<>>, Text_garbage, Text_0230,
      <<"2", "0", "2", "3", "-", "0", "2", "-", "2", "9">>,
      <<"2", "0", "2", "4", "-", "1", "3", "-", "0", "1">>,
      <<"2", "0", "2", "4", "-", "0", "2", "-", "0", "0">>,
      <<"0", "0", "0", "0", "-", "0", "1", "-", "0", "1">>,
      <<"2", "0", "2", "4", "-", "2", "-", "2", "8">>,
      <<"2", "0", "2", "4", "/", "0", "2", "/", "2", "8">>,
      Due_0228 \o MidnightSuffix }

ExpiryInputs == {date_isoformat(day) : day \in KnownDays} \cup NoDayTexts

ExpiryInit ==
    /\ store = <<>>
    /\ clock \in 0..(MaxClock + 1)
    /\ req = [s \in Slots |-> IdleReq]
    /\ out = NoResp
    /\ watch = WatchIdle
    /\ issued = 0
    /\ expected = NoneExpected

ExpiryNext == \E due_date_str \in ExpiryInputs : ExpiryCheck(due_date_str) /\ UNCHANGED hist

ExpirySpec == ExpiryInit /\ [][ExpiryNext]_vars

(***************************************************************************)
(* The requests as they arrive: a JSON body is the set of keys it has and  *)
(* their values.  FastAPI builds the TodoCreate or TodoUpdate model from   *)
(* it before the handler is called, and answers 422 without calling the    *)
(* handler when a field without default is missing.                        *)
(***************************************************************************)
AllKeys == {"title", "completed", "due_date", "tags"}

JsonBody(keys, title, completed, due_date, tags) ==
    [keys |-> keys, title |-> title, completed |-> completed, due_date |-> due_date,
     tags |-> tags]

\* title: Optional[str] = None, which asks for no field.
TodoCreate_title_optional(body) == body.keys \subseteq AllKeys

\* title: str
TodoCreate_valid(body) == "title" \in body.keys

\* completed: bool = False, due_date: Optional[str] = None,
\* tags: Optional[List[str]] = []
TodoCreate(body) ==
    [title |-> IF "title" \in body.keys THEN body.title ELSE None,
     completed |-> IF "completed" \in body.keys THEN body.completed ELSE FALSE,
     due_date |-> IF "due_date" \in body.keys THEN body.due_date ELSE None,
     tags |-> IF "tags" \in body.keys THEN body.tags ELSE <<>>]

\* title: str, completed: bool
TodoUpdate_valid(body) == {"title", "completed"} \subseteq body.keys

TodoUpdate(body) ==
    [title |-> IF "title" \in body.keys THEN body.title ELSE None,
     completed |-> IF "completed" \in body.keys THEN body.completed ELSE FALSE,
     due_date |-> IF "due_date" \in body.keys THEN body.due_date ELSE None,
     tags |-> IF "tags" \in body.keys THEN body.tags ELSE <<>>]

\* The 422 response of the request validation.
Rejected(op, todo_id) ==
    /\ out' = Resp(op, 422, todo_id, <<>>)
    /\ UNCHANGED <<store, clock, req>>

\* POST /todos with a JSON body.
PostTodos(s, body) ==
    IF TodoCreate_valid(body) THEN CreateBegin(s, TodoCreate(body))
    ELSE Rejected("create", 0)

\* PUT /todos/{todo_id} with a JSON body.
PutTodo(s, todo_id, body) ==
    IF TodoUpdate_valid(body) THEN UpdateBegin(s, todo_id, TodoUpdate(body))
    ELSE Rejected("update", todo_id)

CreateBodies ==
    { JsonBody({"title"}, Text_a, FALSE, None, <<>>),
      JsonBody(AllKeys, Text_a, TRUE, Due_0228, <<Text_x, Text_b, Text_x>>),
      JsonBody(AllKeys, Text_b, FALSE, Due_0302, NoTags),
      JsonBody({"completed", "due_date"}, None, TRUE, Due_0228, <<>>),
      JsonBody({}, None, FALSE, None, <<>>) }

UpdateBodies ==
    { JsonBody({"title", "completed"}, Text_b, TRUE, None, <<>>),
      JsonBody(AllKeys, Text_a, FALSE, Due_0302, <<Text_x, Text_a, Text_x>>),
      JsonBody(AllKeys, Text_b, TRUE, Due_0228, NoTags),
      JsonBody({"title", "due_date"}, Text_b, FALSE, Due_0228, <<>>),
      JsonBody({"completed", "tags"}, None, TRUE, None, <<Text_x>>) }

(***************************************************************************)
(* The service handling one request at a time, with the history variable   *)
(* issued.                                                                 *)
(***************************************************************************)
IssuedAfter ==
    LET done == {s \in Slots : req[s].op = "create" /\ req'[s].op = "idle"}
    IN  IF done = {} THEN issued
        ELSE LET id == req[CHOOSE s \in done : TRUE].new_task.id
             IN  IF id > issued THEN id ELSE issued

Record == issued' = IssuedAfter /\ UNCHANGED <<watch, expected>>

ApiNext ==
    \/ Tick /\ Record
    \/ \E s \in Slots, body \in CreateBodies : Quiet /\ PostTodos(s, body) /\ Record
    \/ \E s \in Slots : CreateInsert(s) /\ Record
    \/ \E s \in Slots, todo_id \in Ids, body \in UpdateBodies :
          Quiet /\ PutTodo(s, todo_id, body) /\ Record
    \/ \E s \in Slots : UpdateWrite(s) /\ Record
    \/ \E s \in Slots : UpdateReturn(s) /\ Record
    \/ \E s \in Slots, todo_id \in Ids : Quiet /\ ToggleBegin(s, todo_id) /\ Record
    \/ \E s \in Slots : ToggleWrite(s) /\ Record
    \/ \E s \in Slots : ToggleReturn(s) /\ Record
    \/ \E todo_id \in Ids : Quiet /\ DeleteTodo(todo_id) /\ Record

ApiSpec == Init /\ [][ApiNext]_vars

(***************************************************************************)
(* The service with the history variable expected, under create and toggle *)
(* requests only: no update and no delete touches a task, so a stored flag *)
(* changes by the writes of toggle requests alone.                         *)
(***************************************************************************)
ExpectedAfter ==
    LET inserted == {s \in Slots : req[s].op = "create" /\ req'[s].op = "idle"}
        answered == {s \in Slots : /\ req[s].op = "toggle" /\ req[s].pc = "find_one"
                                   /\ req'[s].op = "idle"
                                   /\ out'.status = 200}
    IN  IF inserted # {}
        THEN LET doc == req[CHOOSE s \in inserted : TRUE].new_task
             IN  IF expected[doc.id] = {}
                 THEN [expected EXCEPT ![doc.id] = {doc.completed}]
                 ELSE expected
        ELSE IF answered # {}
        THEN LET id == req[CHOOSE s \in answered : TRUE].todo_id
             IN  [expected EXCEPT ![id] = {~b : b \in expected[id]}]
        ELSE expected

Tally == expected' = ExpectedAfter /\ UNCHANGED <<watch, issued>>

ToggleNext ==
    \/ Tick /\ Tally
    \/ \E s \in Slots, todo \in CreateInputs : CreateBegin(s, todo) /\ Tally
    \/ \E s \in Slots : CreateInsert(s) /\ Tally
    \/ \E s \in Slots, todo_id \in Ids : ToggleBegin(s, todo_id) /\ Tally
    \/ \E s \in Slots : ToggleWrite(s) /\ Tally
    \/ \E s \in Slots : ToggleReturn(s) /\ Tally

ToggleSpec == Init /\ [][ToggleNext]_vars

(***************************************************************************)
(* What the properties are stated with.  A due date is past when it is the *)
(* text of a known day that comes before today by its day number; this     *)
(* does not go through the parsing of is_expired.                          *)
(***************************************************************************)
DayNumber(day) == Ordinal(day.y, day.m, day.d)

KnownDayTexts == {date_isoformat(day) : day \in KnownDays}

DayNumberOfText ==
    [text \in KnownDayTexts |->
        DayNumber(CHOOSE day \in KnownDays : date_isoformat(day) = text)]

PastDue(due_date, k) ==
    /\ due_date \in KnownDayTexts
    /\ DayNumberOfText[due_date] < DayNumber(date_today(k))

Stored(body) == [i \in 1..Len(body) |-> TodoItem(body[i])]

Count(seq, x) == Cardinality({i \in 1..Len(seq) : seq[i] = x})

SameTasks(a, b) ==
    /\ Len(a) = Len(b)
    /\ \A i \in 1..Len(a) : Count(a, a[i]) = Count(b, a[i])

Bucket(task, k) ==
    IF task.completed THEN 4
    ELSE IF ~Truthy(task.due_date) THEN 1
    ELSE IF PastDue(task.due_date, k) THEN 3
    ELSE 2

(***************************************************************************)
(* C1: in every state reached by create, update, toggle and delete         *)
(* requests from the empty store, every stored task has completed_at       *)
(* present if and only if completed is true.                               *)
(***************************************************************************)
C1_CompletedAtIffCompleted ==
    \A i \in 1..Len(store) : (store[i].completed_at # None) <=> store[i].completed

(***************************************************************************)
(* C2: in every reachable state, under any interleaving of concurrent      *)
(* create requests with each other and with deletes, no two stored tasks   *)
(* have the same id.                                                       *)
(***************************************************************************)
C2_UniqueIds ==
    \A i, j \in 1..Len(store) : i # j => store[i].id # store[j].id

(***************************************************************************)
(* C3: is_expired(d), evaluated against today, returns true if and only if *)
(* d is the text of a calendar date strictly before today; for d absent,   *)
(* empty, not a date, today or later it returns false; it never raises.    *)
(***************************************************************************)
C3_ExpiredIffPastDate ==
    out.op = "is_expired" =>
        /\ out.status = 200
        /\ out.body[1].expired <=> PastDue(out.body[1].due_date, clock)

\* is_expired has answered true for yesterday's date.
C3_Witness ==
    /\ out.op = "is_expired"
    /\ out.body[1].due_date = Due_0228
    /\ out.body[1].expired

(***************************************************************************)
(* C4: in a full listing that is produced, tasks appear in ascending       *)
(* bucket rank: not completed without due date (1), not completed with a   *)
(* due date that is not expired (2), not completed and expired (3),        *)
(* completed (4); Bucket gives every task exactly one of the four.         *)
(***************************************************************************)
C4_BucketsAscend ==
    out.op = "get_todos" /\ out.status = 200 =>
        \A i, j \in 1..Len(out.body) :
            i < j => Bucket(out.body[i], clock) <= Bucket(out.body[j], clock)

\* A listing of three tasks of three buckets, stored in another order.
C4_Witness ==
    /\ out.op = "get_todos" /\ out.status = 200
    /\ Len(out.body) = 3
    /\ Bucket(out.body[1], clock) < Bucket(out.body[2], clock)
    /\ Bucket(out.body[2], clock) < Bucket(out.body[3], clock)
    /\ Bucket(store[1], clock) = 4
    /\ Bucket(store[2], clock) = 3

(***************************************************************************)
(* C5: a completed task whose due date is past is placed in the done       *)
(* bucket of the full listing, after every task that is not completed,     *)
(* with expired = true there, and the expired-only listing never returns   *)
(* it.                                                                     *)
(***************************************************************************)
DoneAndPast(task, k) == task.completed /\ PastDue(task.due_date, k)

C5_DonePastDueListedLast ==
    /\ out.op = "get_todos" =>
          \A i \in 1..Len(store) :
              DoneAndPast(store[i], clock) =>
                  /\ out.status = 200
                  /\ \E p \in 1..Len(out.body) :
                        /\ TodoItem(out.body[p]) = store[i]
                        /\ out.body[p].expired
                        /\ \A q \in 1..Len(out.body) : ~out.body[q].completed => q < p
    /\ out.op = "get_expired_todos" =>
          \A p \in 1..Len(out.body) : ~DoneAndPast(out.body[p], clock)

(***************************************************************************)
(* C6: the expired-only listing returns exactly the stored tasks that are  *)
(* not completed and whose due date is past, each once and each with       *)
(* expired = true; they are the tasks of the full listing, when that one   *)
(* is produced, with expired = true and completed = false.                 *)
(***************************************************************************)
Overdue(coll, k) ==
    LET Keep(task) == ~task.completed /\ PastDue(task.due_date, k)
    IN  SelectSeq(coll, Keep)

ExpiredNotCompleted(body) ==
    LET Keep(r) == r.expired /\ ~r.completed
    IN  SelectSeq(body, Keep)

C7_ListingIsPermutation ==
    [][out'.op = "get_todos" =>
          /\ out'.status = 200
          /\ SameTasks(Stored(out'.body), store)
          /\ \A p \in 1..Len(out'.body) :
                out'.body[p].expired <=> PastDue(out'.body[p].due_date, clock)
          /\ store' = store]_vars

(***************************************************************************)
(* C8: two consecutive successful toggle requests on a stored task, with   *)
(* no other write in between, return the task as it was before the first:  *)
(* completed has its original value, completed_at is present exactly when  *)
(* it was present before, every other field is unchanged.                  *)
(***************************************************************************)
C8_ToggleTwiceRestores ==
    watch.phase = "done" =>
        LET task == out.body[1]
        IN  /\ task.completed = watch.pre.completed
            /\ (task.completed_at # None) <=> (watch.pre.completed_at # None)
            /\ [task EXCEPT !.completed_at = None] = [watch.pre EXCEPT !.completed_at = None]

C10_ListingNeverFails ==
    /\ out.op \in {"get_todos", "get_expired_todos", "is_expired"} => out.status = 200
    /\ out.op = "get_todos" =>
          /\ SameTasks(Stored(out.body), store)
          /\ \A p \in 1..Len(out.body) :
                ~date_fromisoformat(out.body[p].due_date).ok => ~out.body[p].expired
          /\ \A p, q \in 1..Len(out.body) :
                (/\ out.body[p].completed /\ out.body[p].completed_at = None
                 /\ out.body[q].completed /\ out.body[q].completed_at # None) => q < p

(***************************************************************************)
(* C11: every id given by a create request is strictly greater than every  *)
(* id given by an earlier create request, whatever was deleted in between: *)
(* the id of a deleted task is not given again.                            *)
(***************************************************************************)
C11_IdsOnlyGrow ==
    [][\A s \in Slots :
          req[s].op = "create" /\ req'[s].op = "idle" => req[s].new_task.id > issued]_vars

(***************************************************************************)
(* C12: no step of an update or toggle request changes the id or the       *)
(* created_at of any stored task, or the number of stored tasks.           *)
(***************************************************************************)
UpdateOrToggleStep ==
    \/ out'.op \in {"update", "toggle"}
    \/ \E s \in Slots :
          /\ req'[s] # req[s]
          /\ req[s].op \in {"update", "toggle"} \/ req'[s].op \in {"update", "toggle"}

C12_IdAndCreatedAtKept ==
    [][UpdateOrToggleStep =>
          /\ Len(store') = Len(store)
          /\ \A i \in 1..Len(store) :
                /\ store'[i].id = store[i].id
                /\ store'[i].created_at = store[i].created_at]_vars

\* An update request has just written its title to a task.
C12_Witness ==
    \E s \in Slots :
        /\ req[s].op = "update" /\ req[s].pc = "find_one"
        /\ \E i \in 1..Len(store) :
              /\ store[i].id = req[s].todo_id
              /\ store[i].title = Text_b
              /\ store[i].created_at # None

(***************************************************************************)
(* C13: a create request whose body has no title, and an update request    *)
(* whose body has no title or no completed, is answered "invalid input"    *)
(* (422) and in no other way, with the store and the handlers as they      *)
(* were: no store access, no id taken.                                     *)
(***************************************************************************)
RejectedUntouched ==
    /\ out'.status = 422
    /\ store' = store /\ req' = req /\ clock' = clock
    /\ UNCHANGED hist

C13_InvalidInputRejected ==
    /\ \A s \in Slots, body \in CreateBodies :
          "title" \notin body.keys =>
              /\ ENABLED (PostTodos(s, body) /\ RejectedUntouched)
              /\ ~ENABLED (PostTodos(s, body) /\ UNCHANGED hist /\ ~RejectedUntouched)
    /\ \A s \in Slots, todo_id \in Ids, body \in UpdateBodies :
          ~({"title", "completed"} \subseteq body.keys) =>
              /\ ENABLED (PutTodo(s, todo_id, body) /\ RejectedUntouched)
              /\ ~ENABLED (PutTodo(s, todo_id, body) /\ UNCHANGED hist /\ ~RejectedUntouched)

\* "Invalid input" has been answered to an update of a stored task.
C13_Witness ==
    /\ out.op = "update" /\ out.status = 422
    /\ FirstMatch(store, out.arg) # 0

(***************************************************************************)
(* C14: a successful create request returns the record it inserted.  The   *)
(* record is built from the body (title, completed, due_date, tags; no     *)
(* due_date when the body has none, no tags as the empty sequence) with    *)
(* the id the store gives; the insert adds exactly that record to the      *)
(* store, and the response carries its fields.                             *)
(***************************************************************************)
BuiltFrom(task, body) ==
    /\ task.title = body.title
    /\ task.completed = ("completed" \in body.keys /\ body.completed)
    /\ task.due_date = (IF "due_date" \in body.keys THEN body.due_date ELSE None)
    /\ task.tags = (IF "tags" \in body.keys /\ body.tags # NoTags THEN body.tags ELSE <<>>)

C15_UpdateReplacesFields ==
    [][/\ \A s \in Slots, todo_id \in Ids, body \in UpdateBodies :
             {"title", "completed"} \subseteq body.keys /\ FirstMatch(store, todo_id) # 0 =>
                 ~ENABLED (/\ PutTodo(s, todo_id, body) /\ UNCHANGED hist
                           /\ ~(/\ req'[s].op = "update"
                                /\ req'[s].todo_id = todo_id
                                /\ BuiltFrom(req'[s].updated_task, body)))
       /\ \A s \in Slots :
             (/\ req[s].op = "update" /\ req[s].pc = "update_one"
              /\ req'[s] # req[s]
              /\ FirstMatch(store, req[s].todo_id) # 0) =>
                 LET i == FirstMatch(store, req[s].todo_id)
                     given == req[s].updated_task
                 IN  /\ Len(store') = Len(store)
                     /\ store'[i].id = req[s].todo_id
                     /\ store'[i].title = given.title
                     /\ store'[i].completed = given.completed
                     /\ store'[i].due_date = given.due_date
                     /\ store'[i].tags = given.tags
                     /\ \A j \in 1..Len(store) : j # i => store'[j] = store[j]
       /\ \A s \in Slots :
             (/\ req[s].op = "update" /\ req[s].pc = "find_one"
              /\ req'[s] # req[s] /\ out'.status = 200) =>
                 out'.body = <<store[FirstMatch(store, req[s].todo_id)]>>]_vars

\* An update has written tags with a duplicate, in the order given, to one
\* of two stored tasks; the other has its own tags.
C15_Witness ==
    \E s \in Slots :
        /\ req[s].op = "update" /\ req[s].pc = "find_one"
        /\ Len(store) = 2
        /\ \E i \in 1..2 :
              /\ store[i].id = req[s].todo_id
              /\ store[i].tags = <<Text_x, Text_a, Text_x>>
              /\ store[3 - i].tags # store[i].tags

(***************************************************************************)
(* C16: within the undated bucket (rank 1) of the full listing, tasks are  *)
(* ordered by created_at descending, and a task whose created_at is absent *)
(* or does not parse comes after every task of the bucket whose created_at *)
(* parses, whatever that timestamp is; the listing is produced.            *)
(***************************************************************************)
Instant(dt) == <<dt.y, dt.m, dt.d, dt.H, dt.M, dt.S, dt.us>>

RECURSIVE TupleLess(_, _)
TupleLess(a, b) ==
    /\ a # <<>>
    /\ \/ a[1] < b[1]
       \/ a[1] = b[1] /\ TupleLess(Tail(a), Tail(b))

\* Whether a text is a timestamp, and whether one is before another.
IsInstant(text) == datetime_fromisoformat(text).ok

Earlier(text_a, text_b) ==
    TupleLess(Instant(datetime_fromisoformat(text_a)), Instant(datetime_fromisoformat(text_b)))

AllInBucket(coll, rank, k) == \A i \in 1..Len(coll) : Bucket(coll[i], k) = rank

C16_UndatedByCreatedAtDesc ==
    out.op = "get_todos" =>
        /\ AllInBucket(store, 1, clock) => out.status = 200
        /\ out.status = 200 =>
              \A p, q \in 1..Len(out.body) :
                  (/\ p < q
                   /\ Bucket(out.body[p], clock) = 1
                   /\ Bucket(out.body[q], clock) = 1
                   /\ IsInstant(out.body[q].created_at)) =>
                      /\ IsInstant(out.body[p].created_at)
                      /\ ~Earlier(out.body[p].created_at, out.body[q].created_at)

(***************************************************************************)
(* C17: within the upcoming bucket (rank 2) and within the overdue bucket  *)
(* (rank 3) of the full listing, tasks are ordered by due date ascending,  *)
(* and a task whose due_date is not empty and is no date comes, in the     *)
(* upcoming bucket, after every task whose due_date is a date; the listing *)
(* is produced.                                                            *)
(***************************************************************************)
IsDay(text) == text \in KnownDayTexts

AllDatedOpen(coll, k) == \A i \in 1..Len(coll) : Bucket(coll[i], k) \in {2, 3}

C17_DatedByDueDateAsc ==
    out.op = "get_todos" =>
        /\ AllDatedOpen(store, clock) => out.status = 200
        /\ out.status = 200 =>
              \A p, q \in 1..Len(out.body) :
                  (/\ p < q
                   /\ Bucket(out.body[p], clock) \in {2, 3}
                   /\ Bucket(out.body[p], clock) = Bucket(out.body[q], clock)
                   /\ IsDay(out.body[q].due_date)) =>
                      /\ IsDay(out.body[p].due_date)
                      /\ DayNumberOfText[out.body[p].due_date]
                            <= DayNumberOfText[out.body[q].due_date]

(***************************************************************************)
(* C18: within the done bucket (rank 4) of the full listing, tasks are     *)
(* ordered by completed_at descending, and a completed task whose          *)
(* completed_at is absent or does not parse comes after every completed    *)
(* task whose completed_at parses; the listing is produced.                *)
(***************************************************************************)
C18_DoneByCompletedAtDesc ==
    out.op = "get_todos" =>
        /\ AllInBucket(store, 4, clock) => out.status = 200
        /\ out.status = 200 =>
              \A p, q \in 1..Len(out.body) :
                  (/\ p < q
                   /\ out.body[p].completed /\ out.body[q].completed
                   /\ IsInstant(out.body[q].completed_at)) =>
                      /\ IsInstant(out.body[p].completed_at)
                      /\ ~Earlier(out.body[p].completed_at, out.body[q].completed_at)

(***************************************************************************)
(* C19: the full listing is deterministic and stable.  A listing of the    *)
(* same store at any instant of the same date returns the same order, and  *)
(* the tasks that share one (rank, key) appear in the listing in the order *)
(* they have in the store.                                                 *)
(***************************************************************************)
SameKey(a, b) ==
    LET ka == sort_key(a, clock, 0)
        kb == sort_key(b, clock, 0)
    IN  ka.rank = kb.rank /\ ka.val = kb.val

TiedWith(seq, task) == SelectSeq(seq, LAMBDA x : SameKey(x, task))

SameDateClocks == {k \in 0..(2 * MaxClock + 1) : date_today(k) = date_today(clock)}

C19_ListingDeterministicStable ==
    out.op = "get_todos" /\ out.status = 200 =>
        /\ \A k \in SameDateClocks : \A tzh \in TzOffsets :
               LET again == get_todos(store, k, tzh)
               IN  again.status = 200 => again.body = out.body
        /\ \A p \in 1..Len(out.body) :
               TiedWith(Stored(out.body), store[p]) = TiedWith(store, store[p])

\* Three tasks are listed; two of them, of the same key, are stored one
\* after the other behind a task that the listing puts last.
C19_Witness ==
    /\ out.op = "get_todos" /\ out.status = 200
    /\ Len(store) = 3
    /\ store[2] # store[3] /\ SameKey(store[2], store[3])
    /\ Bucket(store[1], clock) > Bucket(store[2], clock)
    /\ Stored(out.body) = <<store[2], store[3], store[1]>>
    /\ Cardinality(SameDateClocks) > 1

(***************************************************************************)
(* C20: a toggle request on task X changes only X's completed flag and X's *)
(* completed_at.  Its lookup computes the negation of the flag it reads    *)
(* and writes nothing; its write sets the flag of X to that negation and   *)
(* leaves X's id, title, due_date, tags and created_at, the number of      *)
(* stored tasks and every other stored task as they were; its response     *)
(* writes nothing.  X is the first stored task with the identifier asked.  *)
(***************************************************************************)
ToggleLookup(s) == req[s].op = "idle" /\ req'[s].op = "toggle"

ToggleWritten(s) ==
    /\ req[s].op = "toggle" /\ req[s].pc = "update_one"
    /\ req'[s] # req[s]

ToggleAnswered(s) ==
    /\ req[s].op = "toggle" /\ req[s].pc = "find_one"
    /\ req'[s] # req[s]

C20_ToggleChangesOnlyCompletion ==
    [][\A s \in Slots :
          /\ ToggleLookup(s) =>
                /\ store' = store
                /\ \E i \in 1..Len(store) :
                      /\ store[i].id = req'[s].todo_id
                      /\ \A j \in 1..(i - 1) : store[j].id # req'[s].todo_id
                      /\ req'[s].update_data.completed = ~store[i].completed
          /\ ToggleWritten(s) =>
                /\ Len(store') = Len(store)
                /\ \A i \in 1..Len(store) :
                      IF /\ store[i].id = req[s].todo_id
                         /\ \A j \in 1..(i - 1) : store[j].id # req[s].todo_id
                      THEN /\ store'[i].completed = req[s].update_data.completed
                           /\ store'[i].id = store[i].id
                           /\ store'[i].title = store[i].title
                           /\ store'[i].due_date = store[i].due_date
                           /\ store'[i].tags = store[i].tags
                           /\ store'[i].created_at = store[i].created_at
                      ELSE store'[i] = store[i]
          /\ ToggleAnswered(s) => store' = store]_vars

\* A toggle request has written and is about to answer: its task, stored
\* second, with the title and the tags of an earlier update, is now
\* completed, and the task stored first is another one, with a due date.
C20_Witness ==
    \E s \in Slots :
        /\ req[s].op = "toggle" /\ req[s].pc = "find_one"
        /\ Len(store) = 2
        /\ store[1].id # store[2].id
        /\ store[2].id = req[s].todo_id
        /\ store[2].completed /\ store[2].completed_at # None
        /\ store[2].title = Text_b /\ store[2].tags # <<>>
        /\ store[1].due_date # None

(***************************************************************************)
(* C21: completed_at changes only when completed changes.  The lookup of   *)
(* an update or toggle request computes the completed_at it will write: the *)
(* stored one when the request keeps the flag it reads, the time of the    *)
(* request when it moves the task from not completed to completed, none    *)
(* when it moves it from completed to not completed.  Its write stores     *)
(* what was computed, and a write that leaves the stored flag of a task as *)
(* it was leaves the stored completed_at of that task as it was.           *)
(***************************************************************************)
Computed(r) == IF r.op = "update" THEN r.updated_task ELSE r.update_data

LookedUp(s) == req[s].op = "idle" /\ req'[s].op \in {"update", "toggle"}

Written(s) ==
    /\ req[s].op \in {"update", "toggle"} /\ req[s].pc = "update_one"
    /\ req'[s] # req[s]

IsFirstWithId(coll, i, todo_id) ==
    /\ coll[i].id = todo_id
    /\ \A j \in 1..(i - 1) : coll[j].id # todo_id

C21_CompletedAtFollowsCompleted ==
    [][\A s \in Slots :
          /\ LookedUp(s) =>
                \A i \in 1..Len(store) :
                    IsFirstWithId(store, i, req'[s].todo_id) =>
                        LET new == Computed(req'[s])
                        IN  /\ new.completed = store[i].completed =>
                                  new.completed_at = store[i].completed_at
                            /\ new.completed /\ ~store[i].completed =>
                                  new.completed_at = now_isoformat(clock)
                            /\ ~new.completed /\ store[i].completed =>
                                  new.completed_at = None
          /\ Written(s) =>
                /\ Len(store') = Len(store)
                /\ \A i \in 1..Len(store) :
                      /\ IsFirstWithId(store, i, req[s].todo_id) =>
                            /\ store'[i].completed = Computed(req[s]).completed
                            /\ store'[i].completed_at = Computed(req[s]).completed_at
                      /\ store'[i].completed = store[i].completed =>
                            store'[i].completed_at = store[i].completed_at]_vars

(***************************************************************************)
(* C22: each toggle request answered with the task takes effect as one     *)
(* flip of the stored flag, however the requests overlap.  When every      *)
(* toggle request on a task has been answered and no update has touched    *)
(* it, the stored flag is the one the task was stored with if the number   *)
(* of those requests is even, and its negation if the number is odd.       *)
(***************************************************************************)
AllToggled(todo_id) ==
    \A s \in Slots : ~(req[s].op = "toggle" /\ req[s].todo_id = todo_id)

C22_NoToggleLost ==
    \A i \in 1..Len(store) :
        (/\ IsFirstWithId(store, i, store[i].id)
         /\ AllToggled(store[i].id)) =>
            expected[store[i].id] = {store[i].completed}

(***************************************************************************)
(* C23: however an update or toggle request on a task overlaps a delete of *)
(* that task, the request is answered with the task or with "not found",   *)
(* never with an unhandled error, and its write, coming after the delete,  *)
(* puts no record back in the store.                                       *)
(***************************************************************************)
Gone(todo_id) == \A i \in 1..Len(store) : store[i].id # todo_id

C23_DeleteRaceHandled ==
    [][/\ out'.op \in {"update", "toggle"} => out'.status \in {200, 404}
       /\ \A s \in Slots :
             Written(s) /\ Gone(req[s].todo_id) => store' = store]_vars

=============================================================================
